---------------------------- MODULE Spec2Model ----------------------------
(***************************************************************************)
(* Model of hdl/testbench/int_div_tb/nvc/Manifest.py: a Python manifest    *)
(* that is executed top to bottom.  Each statement is an assignment; the   *)
(* last one builds sim_post_cmd with the string formatting operator        *)
(*     "<template>" % (top_module, top_module).                            *)
(*                                                                         *)
(* Python strings are modelled as sequences of one-character strings, so   *)
(* that formatting, substring search and equality are computed and not     *)
(* assumed.  The namespace the manifest is executed in is the function     *)
(* env from names to values.  An exception raised by a statement stops the *)
(* execution at that statement and is recorded in err.                     *)
(***************************************************************************)
EXTENDS Naturals, Sequences, FiniteSets

VARIABLES
    source,   \* the manifest being executed: a sequence of statements
    pc,       \* index in source of the next statement to execute
    env,      \* the namespace: name -> value (or Unbound)
    err,      \* "none", or the name of the exception that ended the load
    prev      \* namespaces of the loads completed before this one

vars == <<source, pc, env, err, prev>>

---------------------------------------------------------------------------
(* Bounds of the model.                                                    *)

\* Longest top_module drawn over Alphabet (the manifest's own, longer,
\* top_module is always included).
MaxLen == 2

\* Largest number of "%s" placeholders in a template variant.
MaxPlaceholders == 3

---------------------------------------------------------------------------
(* The literals of the manifest, as character sequences.                   *)

\* line 1: "simulation"
action_lit ==
    <<"s", "i", "m", "u", "l", "a", "t", "i", "o", "n">>

\* line 2: "nvc"
sim_tool_lit ==
    <<"n", "v", "c">>

\* line 3: "int_div_tb"
top_module_lit ==
    <<"i", "n", "t", "_", "d", "i", "v", "_", "t", "b">>

\* line 5: the key "local"
local_key ==
    <<"l", "o", "c", "a", "l">>

\* line 5: the path "../"
local_path ==
    <<".", ".", "/">>

\* line 5: the dict display {"local" : ["../"]}, as its items in source order
modules_lit ==
    << [key |-> local_key, val |-> <<local_path>>] >>

\* line 7: "--std=2008"
nvc_opt_lit ==
    <<"-", "-", "s", "t", "d", "=", "2", "0", "0", "8">>

\* line 8: "--no-collapse"
nvc_elab_opt_lit ==
    <<"-", "-", "n", "o", "-", "c", "o", "l", "l", "a", "p", "s", "e">>

\* line 10: the template up to its first placeholder
TemplateHead ==
    <<"n", "v", "c", " ", "-", "r", " ", "-", "-", "d", "u", "m", "p", "-",
      "a", "r", "r", "a", "y", "s", " ", "-", "-", "e", "x", "i", "t", "-",
      "s", "e", "v", "e", "r", "i", "t", "y", "=", "e", "r", "r", "o", "r",
      " ">>

\* Mutant of TemplateMid: the "=" of "--wave=" typed as a space.
MutTemplateMid ==
    <<" ", "-", "-", "w", "a", "v", "e", " ">>

\* line 10: the template between its two placeholders
TemplateMid ==
    <<" ", "-", "-", "w", "a", "v", "e", "=">>

\* line 10: the template after its second placeholder
TemplateTail ==
    <<".", "f", "s", "t", " ", "-", "-", "f", "o", "r", "m", "a", "t", "=",
      "f", "s", "t">>

\* a "%s" conversion specifier
Placeholder ==
    <<"%", "s">>

\* line 10: the template with its first n placeholders kept (n <= 2), or
\* with n - 2 further " %s" appended (n > 2).  Template(2) is the string
\* of the manifest.
RECURSIVE Extra(_)
Extra(k) ==
    IF k = 0 THEN <<>> ELSE <<" ">> \o Placeholder \o Extra(k - 1)

Template(n) ==
    TemplateHead
      \o (IF n >= 1 THEN Placeholder ELSE <<>>)
      \o TemplateMid
      \o (IF n >= 2 THEN Placeholder ELSE <<>>)
      \o TemplateTail
      \o (IF n > 2 THEN Extra(n - 2) ELSE <<>>)

---------------------------------------------------------------------------
(* Values and the namespace.                                               *)

Names ==
    {"action", "sim_tool", "top_module", "modules", "nvc_opt",
     "nvc_elab_opt", "sim_post_cmd"}

Unbound == [kind |-> "unbound", str |-> <<>>, items |-> <<>>]

\* a Python str
Str(s) == [kind |-> "str", str |-> s, items |-> <<>>]

\* a Python dict: its items, in the dict's iteration order
Dict(its) == [kind |-> "dict", str |-> <<>>, items |-> its]

Bound(v) == v.kind # "unbound"

EmptyEnv == [n \in Names |-> Unbound]

\* name = value
Bind(e, name, v) == [e EXCEPT ![name] = v]


---------------------------------------------------------------------------
(* Expression evaluation.  The result of evaluating an expression is a    *)
(* value, or the exception it raises.                                      *)

Ok(v) == [exc |-> "none", val |-> v]

Raise(x) == [exc |-> x, val |-> Unbound]

\* The index of the first "%" of t at or after i, Len(t) + 1 if none.
NextPercent(t, i) ==
    IF \E j \in i..Len(t) : t[j] = "%"
    THEN CHOOSE j \in i..Len(t) :
             t[j] = "%" /\ \A h \in i..(j - 1) : t[h] # "%"
    ELSE Len(t) + 1

\* template % args, for a tuple args of strings: the template is scanned
\* left to right; the text up to the next "%" is copied, "%s" takes the
\* next argument, "%%" is a literal "%".  A "%s" with no argument left
\* raises TypeError (not enough arguments for format string), arguments
\* left at the end raise TypeError (not all arguments converted during
\* string formatting), and a "%" followed by nothing or by a character
\* that is no conversion type raises ValueError.  (Conversion types other
\* than s occur in no template of the model.)
RECURSIVE FormatFrom(_, _, _, _, _)
FormatFrom(t, i, args, k, out) ==
    LET j == NextPercent(t, i)
        copied == out \o SubSeq(t, i, j - 1)
    IN  IF j > Len(t)
        THEN IF k <= Len(args) THEN Raise("TypeError") ELSE Ok(Str(copied))
        ELSE IF j = Len(t)
        THEN Raise("ValueError")
        ELSE IF t[j + 1] = "%"
        THEN FormatFrom(t, j + 2, args, k, Append(copied, "%"))
        ELSE IF t[j + 1] = "s"
        THEN IF k > Len(args)
             THEN Raise("TypeError")
             ELSE FormatFrom(t, j + 2, args, k + 1, copied \o args[k])
        ELSE Raise("ValueError")

\* Mutant of Format: a lenient formatting that fills the placeholders
\* that have no argument with the empty string and drops the arguments
\* that have no placeholder.
MutFormatLenient(t, args) ==
    LET n == Cardinality({i \in 1..Len(t) : t[i] = "%"})
        fitted == [i \in 1..n |-> IF i <= Len(args) THEN args[i] ELSE <<>>]
    IN  FormatFrom(t, 1, fitted, 1, <<>>)

Format(t, args) == FormatFrom(t, 1, args, 1, <<>>)

\* Mutant of Insert: a new key goes first.
MutInsertFront(d, key, val) ==
    IF \E i \in 1..Len(d) : d[i].key = key
    THEN [i \in 1..Len(d) |->
             IF d[i].key = key THEN [key |-> key, val |-> val] ELSE d[i]]
    ELSE <<[key |-> key, val |-> val]>> \o d

\* d[key] = val on a dict (insertion-ordered, as the language guarantees
\* since Python 3.7): a key already in the dict keeps its position and
\* takes the new value, a new key goes last.
Insert(d, key, val) ==
    IF \E i \in 1..Len(d) : d[i].key = key
    THEN [i \in 1..Len(d) |->
             IF d[i].key = key THEN [key |-> key, val |-> val] ELSE d[i]]
    ELSE Append(d, [key |-> key, val |-> val])

\* {k1 : v1, k2 : v2, ...}: the items are inserted from left to right.
RECURSIVE DictFrom(_, _, _)
DictFrom(items, i, d) ==
    IF i > Len(items)
    THEN d
    ELSE DictFrom(items, i + 1, Insert(d, items[i].key, items[i].val))

DictDisplay(items) == DictFrom(items, 1, <<>>)

\* Mutant of Operands: the tuple (sim_tool, top_module).
MutOperandsSimTool(e) ==
    IF Bound(e["top_module"])
    THEN Ok(<<e["sim_tool"].str, e["top_module"].str>>)
    ELSE Raise("NameError")

\* Mutant of Operands: a name that is not bound reads as the empty string.
MutOperandsLenient(e) ==
    Ok(<<e["top_module"].str, e["top_module"].str>>)

\* The operands of "%" on line 10: the tuple (top_module, top_module).
\* Reading a name that is not bound raises NameError.
Operands(e) ==
    IF Bound(e["top_module"])
    THEN Ok(<<e["top_module"].str, e["top_module"].str>>)
    ELSE Raise("NameError")

---------------------------------------------------------------------------
(* Statements.  A manifest is a sequence of assignment statements, each    *)
(* with the line it stands on, the name it assigns and its right-hand     *)
(* side: a string literal, a dict display or the formatting expression.    *)

StrStmt(l, name, s) ==
    [line |-> l, target |-> name, kind |-> "str", str |-> s, items |-> <<>>]

DictStmt(l, name, its) ==
    [line |-> l, target |-> name, kind |-> "dict", str |-> <<>>, items |-> its]

FormatStmt(l, name, t) ==
    [line |-> l, target |-> name, kind |-> "format", str |-> t, items |-> <<>>]

\* Mutant of Manifest: top_module is assigned again after line 10.
MutManifestRebind(act, tool, top, mods, opt, elab, tmpl) ==
    << StrStmt(1, "action", act),
       StrStmt(2, "sim_tool", tool),
       StrStmt(3, "top_module", top),
       DictStmt(5, "modules", mods),
       StrStmt(7, "nvc_opt", opt),
       StrStmt(8, "nvc_elab_opt", elab),
       FormatStmt(10, "sim_post_cmd", tmpl),
       StrStmt(11, "top_module", tool) >>

\* Mutant of Manifest: sim_post_cmd is computed on line 3 and top_module
\* assigned on line 10.
MutManifestLateTop(act, tool, top, mods, opt, elab, tmpl) ==
    << StrStmt(1, "action", act),
       StrStmt(2, "sim_tool", tool),
       FormatStmt(3, "sim_post_cmd", tmpl),
       DictStmt(5, "modules", mods),
       StrStmt(7, "nvc_opt", opt),
       StrStmt(8, "nvc_elab_opt", elab),
       StrStmt(10, "top_module", top) >>

\* The manifest, with the values of its literals as parameters.
Manifest(act, tool, top, mods, opt, elab, tmpl) ==
    << StrStmt(1, "action", act),
       StrStmt(2, "sim_tool", tool),
       StrStmt(3, "top_module", top),
       DictStmt(5, "modules", mods),
       StrStmt(7, "nvc_opt", opt),
       StrStmt(8, "nvc_elab_opt", elab),
       FormatStmt(10, "sim_post_cmd", tmpl) >>

\* The manifest of the repository.
TheManifest ==
    Manifest(action_lit, sim_tool_lit, top_module_lit, modules_lit,
             nvc_opt_lit, nvc_elab_opt_lit, Template(2))

\* A manifest with the assignments to the names in absent left out.
Without(prog, absent) ==
    SelectSeq(prog, LAMBDA s : s.target \notin absent)

\* The right-hand side of a statement, evaluated in namespace e.
Eval(stmt, e) ==
    CASE stmt.kind = "str"    -> Ok(Str(stmt.str))
      [] stmt.kind = "dict"   -> Ok(Dict(DictDisplay(stmt.items)))
      [] stmt.kind = "format" ->
           LET ops == Operands(e)
           IN  IF ops.exc # "none"
               THEN Raise(ops.exc)
               ELSE Format(stmt.str, ops.val)

---------------------------------------------------------------------------
(* The manifests that are loaded: the manifest of the repository and its   *)
(* variants in the value of top_module, in the dict display of modules, in *)
(* the number of placeholders of the template and in the assignments left  *)
(* out.                                                                    *)

\* Characters top_module is drawn over: an identifier character that does
\* not occur in the template's literal text and three that do.
Alphabet == {"_", "f", "s", "t"}

\* The values of top_module: non-empty identifiers.
TopModules ==
    UNION {[1..n -> Alphabet] : n \in 1..MaxLen} \cup {top_module_lit}

git_key ==
    <<"g", "i", "t">>

rtl_path ==
    <<".", ".", "/", ".", ".", "/", "r", "t", "l">>

git_path ==
    <<"i", "p">>

\* Dict displays for modules: the manifest's, two with two scopes and
\* two paths in either order, and one that names the scope "local" twice.
ModulesDisplays ==
    { modules_lit,
      << [key |-> local_key, val |-> <<local_path, rtl_path>>],
         [key |-> git_key, val |-> <<git_path>>] >>,
      << [key |-> git_key, val |-> <<git_path>>],
         [key |-> local_key, val |-> <<rtl_path, local_path>>] >>,
      << [key |-> local_key, val |-> <<local_path>>],
         [key |-> git_key, val |-> <<git_path>>],
         [key |-> local_key, val |-> <<rtl_path, local_path>>] >> }

\* The keys the loader is said to require.
RequiredKeys == {"top_module", "sim_tool", "modules"}

Sources ==
    { Without(Manifest(action_lit, sim_tool_lit, top, mods, nvc_opt_lit,
                       nvc_elab_opt_lit, Template(n)), absent) :
        top \in TopModules, mods \in ModulesDisplays,
        n \in 0..MaxPlaceholders, absent \in SUBSET RequiredKeys }

\* Other values for the fields that are not top_module.
alt_action ==
    <<"s", "y", "n", "t", "h", "e", "s", "i", "s">>

alt_sim_tool ==
    <<"g", "h", "d", "l">>

alt_nvc_opt ==
    <<"-", "-", "s", "t", "d", "=", "1", "9", "9", "3">>

alt_nvc_elab_opt ==
    <<"-", "v">>

alt_modules ==
    << [key |-> git_key, val |-> <<git_path>>],
       [key |-> local_key, val |-> <<rtl_path, local_path>>] >>

\* Values of the two simulator option strings.
OptionPairs ==
    { <<nvc_opt_lit, nvc_elab_opt_lit>>, <<alt_nvc_opt, alt_nvc_elab_opt>> }

\* Complete manifests with the template of the repository, a given
\* top_module and any values of the other fields.
PairSources(top) ==
    { Manifest(act, tool, top, mods, opts[1], opts[2], Template(2)) :
        act \in {action_lit, alt_action},
        tool \in {sim_tool_lit, alt_sim_tool},
        mods \in {modules_lit, alt_modules},
        opts \in OptionPairs }

---------------------------------------------------------------------------
(* The load: the statements of the manifest executed in order.             *)

\* The load is executing: no exception so far and a statement left.
Running == err = "none" /\ pc \in 1..Len(source)

\* The load ran to the end of the manifest.
Loaded == err = "none" /\ pc = Len(source) + 1

\* The load was ended by an exception.
Failed == err # "none"

\* Mutant of ExecAssign: a statement that raises binds its target to the
\* empty string.
MutExecAssignPartial ==
    LET r == Eval(source[pc], env)
    IN  /\ IF r.exc = "none"
           THEN /\ env' = Bind(env, source[pc].target, r.val)
                /\ pc' = pc + 1
                /\ err' = err
           ELSE /\ err' = r.exc
                /\ env' = Bind(env, source[pc].target, Str(<<>>))
                /\ pc' = pc
        /\ UNCHANGED <<source, prev>>

\* The assignment statement at pc: its right-hand side is evaluated and
\* the result bound to its target; an exception ends the load at this
\* statement, with nothing bound by it.
ExecAssign ==
    LET r == Eval(source[pc], env)
    IN  /\ IF r.exc = "none"
           THEN /\ env' = Bind(env, source[pc].target, r.val)
                /\ pc' = pc + 1
                /\ err' = err
           ELSE /\ err' = r.exc
                /\ UNCHANGED <<env, pc>>
        /\ UNCHANGED <<source, prev>>

\* the next statement is the assignment to name
At(name) == Running /\ source[pc].target = name

\* line 1
AssignAction ==
    /\ At("action")
    /\ ExecAssign

\* line 2
AssignSimTool ==
    /\ At("sim_tool")
    /\ ExecAssign

\* line 3
AssignTopModule ==
    /\ At("top_module")
    /\ ExecAssign

\* line 5
AssignModules ==
    /\ At("modules")
    /\ ExecAssign

\* line 7
AssignNvcOpt ==
    /\ At("nvc_opt")
    /\ ExecAssign

\* line 8
AssignNvcElabOpt ==
    /\ At("nvc_elab_opt")
    /\ ExecAssign

\* line 10
AssignSimPostCmd ==
    /\ At("sim_post_cmd")
    /\ ExecAssign

\* The literal a manifest assigns to top_module.
TopOf(prog) ==
    LET i == CHOOSE j \in 1..Len(prog) : prog[j].target = "top_module"
    IN  prog[i].str

\* A second load, of a manifest with the same top_module as the first
\* and any values of the other fields, in a fresh namespace; the
\* namespace the first load produced is kept in prev.
Reload ==
    /\ Loaded
    /\ prev = <<>>
    /\ prev' = <<env>>
    /\ source' \in PairSources(TopOf(source))
    /\ pc' = 1
    /\ env' = EmptyEnv
    /\ err' = "none"

Init ==
    /\ source \in Sources
    /\ pc = 1
    /\ env = EmptyEnv
    /\ err = "none"
    /\ prev = <<>>

Next ==
    \/ AssignAction
    \/ AssignSimTool
    \/ AssignTopModule
    \/ AssignModules
    \/ AssignNvcOpt
    \/ AssignNvcElabOpt
    \/ AssignSimPostCmd

Spec == Init /\ [][Next]_vars

\* Two loads in a row, of complete manifests with the same top_module.
InitPair ==
    /\ source \in UNION {PairSources(top) : top \in TopModules}
    /\ pc = 1
    /\ env = EmptyEnv
    /\ err = "none"
    /\ prev = <<>>

NextPair ==
    \/ Next
    \/ Reload

SpecPair == InitPair /\ [][NextPair]_vars

---------------------------------------------------------------------------
(* Vocabulary of the properties.                                           *)

\* the manifest being loaded assigns name
Has(name) == \E i \in 1..Len(source) : source[i].target = name

\* the statement of the manifest being loaded that assigns name
StmtFor(name) ==
    source[CHOOSE i \in 1..Len(source) : source[i].target = name]

\* the template of the manifest being loaded
TemplateText == StmtFor("sim_post_cmd").str

\* the number of conversion specifiers in the template
NumPlaceholders ==
    Cardinality({i \in 1..Len(TemplateText) : TemplateText[i] = "%"})

\* the number of places of s at which t occurs as a substring
Occurrences(t, s) ==
    Cardinality({i \in 1..(Len(s) + 1 - Len(t)) :
                     SubSeq(s, i, i + Len(t) - 1) = t})

\* t is the part of s that starts at place i
OccursAt(t, s, i) ==
    /\ i + Len(t) - 1 <= Len(s)
    /\ SubSeq(s, i, i + Len(t) - 1) = t

\* the names of the exceptions that stand for the two errors of the
\* loader's taxonomy: an absent key is a name that is read unbound, a
\* template that does not take two values is a failed "%"
MissingField == "NameError"

MalformedTemplate == "TypeError"

\* the command line expected for top_module = "int_div_tb"
ExpectedCmd ==
    <<"n", "v", "c", " ", "-", "r", " ", "-", "-", "d", "u", "m", "p", "-",
      "a", "r", "r", "a", "y", "s", " ", "-", "-", "e", "x", "i", "t", "-",
      "s", "e", "v", "e", "r", "i", "t", "y", "=", "e", "r", "r", "o", "r",
      " ", "i", "n", "t", "_", "d", "i", "v", "_", "t", "b", " ", "-", "-",
      "w", "a", "v", "e", "=", "i", "n", "t", "_", "d", "i", "v", "_", "t",
      "b", ".", "f", "s", "t", " ", "-", "-", "f", "o", "r", "m", "a", "t",
      "=", "f", "s", "t">>

\* "--exit-severity=error ", the text before the unit-name argument
UnitArgLead ==
    <<"-", "-", "e", "x", "i", "t", "-", "s", "e", "v", "e", "r", "i", "t",
      "y", "=", "e", "r", "r", "o", "r", " ">>

\* "--wave=", the text before the waveform file name
WaveLead ==
    <<"-", "-", "w", "a", "v", "e", "=">>

\* ".fst", the extension of the waveform file
WaveExt ==
    <<".", "f", "s", "t">>

\* the manifest being loaded assigns every required key
Complete == \A k \in RequiredKeys : Has(k)

\* the manifest being loaded has a top_module and the repository's template
Interpolates ==
    /\ Has("top_module")
    /\ TemplateText = Template(2)

---------------------------------------------------------------------------
(* C1 *)

\* C1: loading the manifest with top_module = "int_div_tb" (and the
\* template of the repository) ends without error with sim_post_cmd equal
\* to "nvc -r --dump-arrays --exit-severity=error int_div_tb
\* --wave=int_div_tb.fst --format=fst".
C1_ExactCommand ==
    (/\ ~Running
     /\ Interpolates
     /\ StmtFor("top_module").str = top_module_lit)
        => /\ Loaded
           /\ env["sim_post_cmd"] = Str(ExpectedCmd)

C1_Witness ==
    /\ source = TheManifest
    /\ Loaded
    /\ Bound(env["sim_post_cmd"])

---------------------------------------------------------------------------
(* C2 *)

\* C2 as stated: for every valid top_module T, sim_post_cmd contains
\* exactly two occurrences of T, after "--exit-severity=error " and
\* after "--wave=".
C2_ExactlyTwo ==
    (Loaded /\ Interpolates /\ Complete)
        => Occurrences(env["top_module"].str, env["sim_post_cmd"].str) = 2

\* C2, amended: T stands at the two placeholder positions, as the
\* unit-name argument after "--exit-severity=error " and as the base name
\* of the "--wave=" file before ".fst"; besides these two, sim_post_cmd
\* contains T once for every occurrence of T in the literal text of the
\* template, so it contains T exactly twice if and only if T is no
\* substring of that text.
C2_TwoPlusLiteral ==
    (Loaded /\ Interpolates)
        => LET T == env["top_module"].str
               cmd == env["sim_post_cmd"].str
               first == Len(TemplateHead) + 1
               second == first + Len(T) + Len(TemplateMid)
               inText == Occurrences(T, TemplateHead)
                           + Occurrences(T, TemplateMid)
                           + Occurrences(T, TemplateTail)
           IN  /\ OccursAt(T, cmd, first)
               /\ OccursAt(UnitArgLead, cmd, first - Len(UnitArgLead))
               /\ OccursAt(<<" ">>, cmd, first + Len(T))
               /\ OccursAt(T, cmd, second)
               /\ OccursAt(WaveLead, cmd, second - Len(WaveLead))
               /\ OccursAt(WaveExt, cmd, second + Len(T))
               /\ Occurrences(T, cmd) = 2 + inText
               /\ (Occurrences(T, cmd) = 2
                     <=> Occurrences(T, Template(2)) = 0)

\* a top_module that occurs in the literal text has been interpolated, and
\* so has one that does not
C2_Witness ==
    /\ Loaded
    /\ Interpolates
    /\ Occurrences(env["top_module"].str, env["sim_post_cmd"].str) > 2
    /\ Len(env["top_module"].str) > 1

---------------------------------------------------------------------------
(* C3 *)

\* C3 as stated: a manifest that lacks one of top_module, sim_tool and
\* modules, all else as in the repository, ends in a MissingField error.
C3_MissingKeyFails ==
    (/\ ~Running
     /\ TemplateText = Template(2)
     /\ Cardinality({k \in RequiredKeys : ~Has(k)}) = 1)
        => err = MissingField

\* C3, amended: of the three keys only top_module is needed by the load.
\* A manifest without top_module ends in the error for the missing name
\* (NameError, raised on line 10) and produces no sim_post_cmd; a manifest
\* with top_module and the repository's template loads without error
\* whether or not sim_tool and modules are assigned, and the names it does
\* not assign stay unbound.
C3_OnlyTopModuleNeeded ==
    ~Running =>
        /\ ~Has("top_module")
              => /\ err = MissingField
                 /\ ~Bound(env["sim_post_cmd"])
                 /\ source[pc].line = 10
        /\ Interpolates
              => /\ Loaded
                 /\ Bound(env["sim_post_cmd"])
                 /\ \A k \in RequiredKeys : Bound(env[k]) <=> Has(k)

\* both cases: a load without top_module that failed, a load without
\* sim_tool and modules that succeeded
C3_Witness ==
    \/ /\ Failed
       /\ ~Has("top_module")
       /\ Has("sim_tool")
       /\ Has("modules")
       /\ TemplateText = Template(2)
    \/ /\ Loaded
       /\ ~Has("sim_tool")
       /\ ~Has("modules")

---------------------------------------------------------------------------
(* C4 *)

\* C4 as stated: after a failed load none of the seven names is bound.
C4_NothingBound ==
    Failed => \A n \in Names : ~Bound(env[n])

\* C4, amended: a failure is raised by the load itself, at the statement
\* that computes sim_post_cmd, and leaves sim_post_cmd unbound; the
\* assignments that precede the failing statement remain bound in the
\* namespace, each to the value its statement gave it.
C4_OnlyCommandUnbound ==
    Failed =>
        /\ pc \in 1..Len(source)
        /\ source[pc].target = "sim_post_cmd"
        /\ ~Bound(env["sim_post_cmd"])
        /\ \A i \in 1..(pc - 1) :
               env[source[i].target] = Eval(source[i], EmptyEnv).val
        /\ \A n \in Names : Bound(env[n])
               => \E i \in 1..(pc - 1) : source[i].target = n

C4_Witness ==
    /\ Failed
    /\ Complete
    /\ Bound(env["action"])
    /\ Bound(env["top_module"])
    /\ ~Bound(env["sim_post_cmd"])

---------------------------------------------------------------------------
(* C5 *)

\* C5: when the template does not hold exactly two placeholders, fewer
\* or more, the formatting of the two values (top_module bound, as in the
\* repository) fails with the MalformedTemplate error (TypeError) and no
\* sim_post_cmd is produced.
C5_WrongPlaceholderCount ==
    (~Running /\ Has("top_module") /\ NumPlaceholders # 2)
        => /\ err = MalformedTemplate
           /\ ~Bound(env["sim_post_cmd"])
           /\ source[pc].target = "sim_post_cmd"

C5_Witness ==
    /\ Failed
    /\ Has("top_module")
    /\ NumPlaceholders > 2

\* ... and with too few placeholders
C5_WitnessFewer ==
    /\ Failed
    /\ Has("top_module")
    /\ NumPlaceholders < 2

---------------------------------------------------------------------------
(* C6, under SpecPair *)

\* C6: two loads with the same top_module yield the same sim_post_cmd,
\* whatever the values of action, sim_tool, modules, nvc_opt and
\* nvc_elab_opt in the two manifests.
C6_SameTopSameCommand ==
    (/\ prev # <<>>
     /\ Loaded
     /\ env["top_module"] = prev[1]["top_module"])
        => env["sim_post_cmd"] = prev[1]["sim_post_cmd"]

\* two loads that agree on top_module and differ in every other field
C6_Witness ==
    /\ prev # <<>>
    /\ Loaded
    /\ env["top_module"] = prev[1]["top_module"]
    /\ \A n \in Names \ {"top_module", "sim_post_cmd"} :
           Bound(env[n]) /\ Bound(prev[1][n]) /\ env[n] # prev[1][n]

---------------------------------------------------------------------------
(* C7 *)

---------------------------------------------------------------------------
(* C8 *)

\* the place of the first (last) item of a display with a given scope
FirstPlace(its, k) ==
    CHOOSE i \in 1..Len(its) :
        its[i].key = k /\ \A j \in 1..(i - 1) : its[j].key # k

LastPlace(its, k) ==
    CHOOSE i \in 1..Len(its) :
        its[i].key = k /\ \A j \in (i + 1)..Len(its) : its[j].key # k

\* C8: the loaded modules lists each scope of the source once, in the
\* order in which the scopes were first inserted, and for each scope the
\* paths of its (last) item in their source order; for the manifest of
\* the repository modules is the single scope "local" with the path
\* sequence <<"../">>.
C8_InsertionOrder ==
    Bound(env["modules"]) =>
        LET disp == StmtFor("modules").items
            d == env["modules"].items
        IN  /\ {d[i].key : i \in 1..Len(d)}
                 = {disp[i].key : i \in 1..Len(disp)}
            /\ \A i, j \in 1..Len(d) :
                   i < j => FirstPlace(disp, d[i].key)
                              < FirstPlace(disp, d[j].key)
            /\ \A i \in 1..Len(d) :
                   d[i].val = disp[LastPlace(disp, d[i].key)].val
            /\ disp = modules_lit
                 => d = << [key |-> local_key, val |-> <<local_path>>] >>

\* a display with two scopes, one of them named twice, has been loaded
C8_Witness ==
    /\ Loaded
    /\ Has("modules")
    /\ Len(StmtFor("modules").items) = 3
    /\ Len(env["modules"].items) = 2

---------------------------------------------------------------------------
(* C10 *)

===========================================================================
